---- MODULE Spec2Model ----
(***************************************************************************)
(* Admin order actions of src/src/actions/admin-orders.ts: markOrderPaid,  *)
(* markOrderDelivered, cancelOrder, updateOrderEmail, deleteOrder,         *)
(* deleteOrders and verifyOrderRefundStatus, run by concurrent requests    *)
(* against one relational store (orders, cards, loginUsers,                *)
(* refundRequests).  Every await on the store is one step; a transaction   *)
(* keeps its writes in a private overlay, holds the rows it wrote until it *)
(* commits or rolls back, and reads what is committed plus its own writes  *)
(* (READ COMMITTED, the default of db.transaction).                        *)
(***************************************************************************)
EXTENDS Integers, Sequences, FiniteSets, Bags, TLC

VARIABLES orders, cards, loginUsers, refundRequests, tx, proc, revalidated, fetched, initial

vars == <<orders, cards, loginUsers, refundRequests, tx, proc, revalidated, fetched, initial>>

store == <<orders, cards, loginUsers, refundRequests>>

(***************************************************************************)
(* Bounds of the model.                                                    *)
(***************************************************************************)
\* largest pointsUsed of an order in the initial store
MaxPoints == 2
\* largest initial points balance of a user
MaxBalance == 1
\* longest orderIds array handed to deleteOrders
MaxBatch == 2

(***************************************************************************)
(* Values.  A string is a sequence of one-character strings; a nullable    *)
(* column or argument is None or Some(v).                                  *)
(***************************************************************************)
None == <<>>
Some(v) == <<v>>

A == <<"A">>
B == <<"B">>
\* the concurrent requests, numbered in arrival order
Procs == {1, 2}
OrderIds == {A, B}
U == <<"u">>
V == <<"v">>
UserIds == {U, V}
CardIds == {"c1", "c2"}
RefundIds == {"r1", "r2"}
OrderStatus == {"pending", "paid", "delivered", "cancelled", "refunded"}

\* JavaScript truthiness of a nullable string, as in `!orderId`, `!order.cardKey`
TruthyStr(o) == o # None /\ Len(o[1]) > 0
\* JavaScript truthiness of a nullable number, as in `order.pointsUsed &&`
TruthyNum(o) == o # None /\ o[1] # 0

IsSpace(c) == c = " "

RECURSIVE TrimStart(_)
TrimStart(s) == IF s # <<>> /\ IsSpace(Head(s)) THEN TrimStart(Tail(s)) ELSE s

RECURSIVE TrimEnd(_)
TrimEnd(s) == IF s # <<>> /\ IsSpace(s[Len(s)]) THEN TrimEnd(SubSeq(s, 1, Len(s) - 1)) ELSE s

\* String.prototype.trim
Trim(s) == TrimEnd(TrimStart(s))

\* the paths handed to revalidatePath
ListPath == <<"/admin/orders">>
DetailPath(orderId) == <<"/admin/orders/", orderId>>
PublicPath(orderId) == <<"/order/", orderId>>

(***************************************************************************)
(* Rows and results.                                                       *)
(***************************************************************************)
OrderRow(status, userId, pointsUsed, cardKey) ==
    [status |-> status, paidAt |-> None, deliveredAt |-> None, userId |-> userId,
     pointsUsed |-> pointsUsed, email |-> None, cardKey |-> cardKey]

CardRow(isUsed, reservedOrderId, reservedAt) ==
    [isUsed |-> isUsed, reservedOrderId |-> reservedOrderId, reservedAt |-> reservedAt]

NoResult == [kind |-> "none", error |-> None, success |-> FALSE, status |-> None, msg |-> None]
\* the handler's promise resolves with undefined
Void == [NoResult EXCEPT !.kind = "void"]
\* the handler's promise rejects with Error(message)
Raised(message) == [NoResult EXCEPT !.kind = "raised", !.error = Some(message)]
\* the object verifyOrderRefundStatus returns
Structured(success, status, msg, error) ==
    [kind |-> "structured", error |-> error, success |-> success, status |-> status, msg |-> msg]

\* what the awaited checkAdmin() rejects with when the caller is no admin
Unauthorized == "Unauthorized"
\* line 29
MissingCardKey == "Missing card key; cannot mark delivered"
\* what a failed store round trip rejects with
StoreError == "store error"
\* what a failed fetch or res.json() rejects with
FetchError == "fetch failed"

\* the JSON bodies the gateway answers with
GatewayResponses ==
    {[code |-> 1, status |-> Some(s), msg |-> None] : s \in {0, 1, 2}}
    \cup {[code |-> 0, status |-> None, msg |-> m] : m \in {None, Some("bad pid")}}
\* no answer was read
NoData == [code |-> -1, status |-> None, msg |-> None]

(***************************************************************************)
(* The store: committed tables and, per request, the overlay of the rows   *)
(* its open transaction wrote (Some(row)) or deleted (None).               *)
(***************************************************************************)
NoTx == [orders |-> <<>>, cards |-> <<>>, loginUsers |-> <<>>, refundRequests |-> <<>>,
         poisoned |-> FALSE]

Put(w, k, v) == [x \in (DOMAIN w) \cup {k} |-> IF x = k THEN v ELSE w[x]]

PutAll(w, f) == [x \in (DOMAIN w) \cup (DOMAIN f) |-> IF x \in DOMAIN f THEN f[x] ELSE w[x]]

Overlay(base, w) ==
    LET dom == {k \in (DOMAIN base) \cup (DOMAIN w) : k \in DOMAIN w => w[k] # None}
    IN  [k \in dom |-> IF k \in DOMAIN w THEN w[k][1] ELSE base[k]]

\* the tables as the statements of p's transaction see them
TxOrders(p) == Overlay(orders, tx[p].orders)
TxCards(p) == Overlay(cards, tx[p].cards)
TxLoginUsers(p) == Overlay(loginUsers, tx[p].loginUsers)
TxRefundRequests(p) == Overlay(refundRequests, tx[p].refundRequests)

\* a row written by another open transaction stays locked until that one ends
Locked(p, table, k) == \E q \in Procs \ {p} : k \in DOMAIN tx[q][table]

Free(p, table, ks) == \A k \in ks : ~Locked(p, table, k)

(***************************************************************************)
(* The requests.                                                           *)
(***************************************************************************)
Idle == [op |-> "none", pc |-> "idle", authorized |-> TRUE, orderId |-> <<>>, ids |-> <<>>,
         i |-> 0, order |-> None, next |-> None, data |-> NoData, result |-> NoResult,
         committed |-> FALSE, overlapped |-> FALSE, undone |-> {}, skipped |-> {}]

\* the call op(orderId) as it arrives
Request(op, orderId) == [Idle EXCEPT !.op = op, !.orderId = orderId]

\* requests arrive in the order of their numbers
CanCall(p) == proc[p].pc = "idle" /\ \A q \in Procs : q < p => proc[q].pc # "idle"

\* new Date(): the number of requests that have arrived
Now == Cardinality({q \in Procs : proc[q].pc # "idle"})

\* the statements that run inside db.transaction, lines 45-69, 123-125 and 136-140
InTransaction ==
    {"L47", "L53", "L58", "L60", "L67", "L69",
     "L86", "L91", "L98", "L106", "L111", "L116", "L125", "L140"}

\* another request's transaction is open
Overlaps(p) == \E q \in Procs \ {p} : proc[q].pc \in InTransaction

At(p, op, pc) == proc[p].op = op /\ proc[p].pc = pc

Goto(p, pc) == proc' = [proc EXCEPT ![p].pc = pc]

\* the request r as it ends with result
Ended(r, result) == [r EXCEPT !.pc = "done", !.result = result, !.order = None, !.i = 0]

\* the handler ends: its promise settles with r
Settle(p, r) == proc' = [proc EXCEPT ![p] = Ended(@, r)]

\* the handler runs on to its first await on the store or the gateway
Begin(p, request, pc) ==
    proc' = [proc EXCEPT ![p] = [request EXCEPT !.pc = pc, !.overlapped = Overlaps(p)]]

\* the handler throws before it did anything
Reject(p, authorized, request, message) ==
    proc' = [proc EXCEPT ![p] = [Request(request.op, request.orderId) EXCEPT
                                    !.pc = "done", !.authorized = authorized,
                                    !.result = Raised(message)]]

\* lines 10-11, 24-25, 42-43, 77-78, 120-121, 146-147: await checkAdmin(), then the id check
\* the id is tested before the caller
Gate_idFirst(p, authorized, request, pc) ==
    IF ~TruthyStr(Some(request.orderId)) THEN Reject(p, authorized, request, "Missing order id")
    ELSE IF ~authorized THEN Reject(p, authorized, request, Unauthorized)
    ELSE Begin(p, [request EXCEPT !.authorized = authorized], pc)

Gate(p, authorized, request, pc) ==
    IF ~authorized THEN Reject(p, authorized, request, Unauthorized)
    ELSE IF ~TruthyStr(Some(request.orderId)) THEN Reject(p, authorized, request, "Missing order id")
    ELSE Begin(p, [request EXCEPT !.authorized = authorized], pc)

Revalidate(paths) == revalidated' = revalidated (+) SetToBag(paths)

\* the columns { userId, pointsUsed } (and cardKey) of the order a findFirst returns
Found(rows, orderId, withCardKey) ==
    IF orderId \in DOMAIN rows
    THEN Some([userId |-> rows[orderId].userId, pointsUsed |-> rows[orderId].pointsUsed,
               cardKey |-> IF withCardKey THEN rows[orderId].cardKey ELSE None])
    ELSE None

\* lines 52 and 90: order?.userId && order.pointsUsed && order.pointsUsed > 0
RefundsPoints(order) ==
    order # None /\ TruthyStr(order[1].userId) /\ TruthyNum(order[1].pointsUsed)
                 /\ order[1].pointsUsed[1] > 0

\* SET points = pointsUsed: the balance is overwritten, not added to
CreditPoints_assign(p, order) ==
    LET u == order[1].userId[1]
        rows == TxLoginUsers(p)
    IN  IF u \in DOMAIN rows
        THEN /\ ~Locked(p, "loginUsers", u)
             /\ tx' = [tx EXCEPT ![p].loginUsers = Put(@, u, Some(order[1].pointsUsed[1]))]
        ELSE UNCHANGED tx

\* the balance read first and written back as SET points = balance + pointsUsed: the write
\* does not see what a concurrent transaction adds
CreditPoints_readThenWrite(p, order) ==
    LET u == order[1].userId[1]
    IN  IF u \in DOMAIN TxLoginUsers(p)
        THEN tx' = [tx EXCEPT ![p].loginUsers =
                       Put(@, u, Some(initial.loginUsers[u] + order[1].pointsUsed[1]))]
        ELSE UNCHANGED tx

\* lines 53-55 and 91-93: UPDATE login_users SET points = points + pointsUsed WHERE user_id = userId
CreditPoints(p, order) ==
    LET u == order[1].userId[1]
        rows == TxLoginUsers(p)
    IN  IF u \in DOMAIN rows
        THEN /\ ~Locked(p, "loginUsers", u)
             /\ tx' = [tx EXCEPT ![p].loginUsers =
                          Put(@, u, Some(rows[u] + order[1].pointsUsed[1]))]
        ELSE UNCHANGED tx

\* the WHERE clause without AND is_used = false
ReleaseCards_used(p, orderId) ==
    LET rows == TxCards(p)
        hit == {c \in DOMAIN rows : rows[c].reservedOrderId = Some(orderId)}
        released == [c \in hit |-> Some([rows[c] EXCEPT !.reservedOrderId = None,
                                                         !.reservedAt = None])]
    IN  /\ Free(p, "cards", hit)
        /\ tx' = [tx EXCEPT ![p].cards = PutAll(@, released)]

\* lines 67-68 and 106-107: UPDATE cards SET reserved_order_id = NULL, reserved_at = NULL
\*                          WHERE reserved_order_id = orderId AND is_used = false
ReleaseCards(p, orderId) ==
    LET rows == TxCards(p)
        hit == {c \in DOMAIN rows : rows[c].reservedOrderId = Some(orderId) /\ rows[c].isUsed = FALSE}
        released == [c \in hit |-> Some([rows[c] EXCEPT !.reservedOrderId = None,
                                                         !.reservedAt = None])]
    IN  /\ Free(p, "cards", hit)
        /\ tx' = [tx EXCEPT ![p].cards = PutAll(@, released)]

\* db.transaction resolves: the overlay becomes the committed rows
Commit(p) ==
    /\ orders' = TxOrders(p)
    /\ cards' = TxCards(p)
    /\ loginUsers' = TxLoginUsers(p)
    /\ refundRequests' = TxRefundRequests(p)
    /\ tx' = [tx EXCEPT ![p] = NoTx]

\* a statement of the open transaction runs only while no earlier one left it aborted
Usable(p) == ~tx[p].poisoned

(***************************************************************************)
(* markOrderPaid, lines 9-21.                                              *)
(***************************************************************************)
markOrderPaid(p, authorized, orderId) ==
    /\ CanCall(p)
    /\ Gate(p, authorized, Request("markOrderPaid", orderId), "L13")
    /\ UNCHANGED <<store, tx, revalidated, fetched, initial>>

\* lines 13-16 with AND status = 'pending' in the WHERE clause
markOrderPaid_update_pendingOnly(p) ==
    LET id == proc[p].orderId
    IN  /\ At(p, "markOrderPaid", "L13")
        /\ Free(p, "orders", {id})
        /\ orders' = [k \in DOMAIN orders |->
                         IF k = id /\ orders[k].status = "pending"
                         THEN [orders[k] EXCEPT !.status = "paid", !.paidAt = Some(Now)]
                         ELSE orders[k]]
        /\ proc' = [proc EXCEPT ![p].pc = "L18", ![p].committed = TRUE]
        /\ UNCHANGED <<cards, loginUsers, refundRequests, tx, revalidated, fetched, initial>>

\* lines 13-16: UPDATE orders SET status = 'paid', paid_at = now WHERE order_id = orderId
markOrderPaid_update(p) ==
    LET id == proc[p].orderId
    IN  /\ At(p, "markOrderPaid", "L13")
        /\ Free(p, "orders", {id})
        /\ orders' = [k \in DOMAIN orders |->
                         IF k = id THEN [orders[k] EXCEPT !.status = "paid", !.paidAt = Some(Now)]
                         ELSE orders[k]]
        /\ proc' = [proc EXCEPT ![p].pc = "L18", ![p].committed = TRUE]
        /\ UNCHANGED <<cards, loginUsers, refundRequests, tx, revalidated, fetched, initial>>

\* lines 18-20
markOrderPaid_revalidate(p) ==
    /\ At(p, "markOrderPaid", "L18")
    /\ Revalidate({ListPath, DetailPath(proc[p].orderId), PublicPath(proc[p].orderId)})
    /\ Settle(p, Void)
    /\ UNCHANGED <<store, tx, fetched, initial>>

(***************************************************************************)
(* markOrderDelivered, lines 23-39.                                        *)
(***************************************************************************)
markOrderDelivered(p, authorized, orderId) ==
    /\ CanCall(p)
    /\ Gate(p, authorized, Request("markOrderDelivered", orderId), "L27")
    /\ UNCHANGED <<store, tx, revalidated, fetched, initial>>

\* line 29 left out
markOrderDelivered_find_noKeyCheck(p) ==
    LET order == Found(orders, proc[p].orderId, TRUE)
    IN  /\ At(p, "markOrderDelivered", "L27")
        /\ IF order = None THEN Settle(p, Raised("Order not found"))
           ELSE proc' = [proc EXCEPT ![p].pc = "L31", ![p].order = order]
        /\ UNCHANGED <<store, tx, revalidated, fetched, initial>>

\* lines 27-29: findFirst, then the two checks on what it returned
markOrderDelivered_find(p) ==
    LET order == Found(orders, proc[p].orderId, TRUE)
    IN  /\ At(p, "markOrderDelivered", "L27")
        /\ IF order = None THEN Settle(p, Raised("Order not found"))
           ELSE IF ~TruthyStr(order[1].cardKey)
                THEN Settle(p, Raised(MissingCardKey))
           ELSE proc' = [proc EXCEPT ![p].pc = "L31", ![p].order = order]
        /\ UNCHANGED <<store, tx, revalidated, fetched, initial>>

\* lines 31-34 with the status of line 14
markOrderDelivered_update_paid(p) ==
    LET id == proc[p].orderId
    IN  /\ At(p, "markOrderDelivered", "L31")
        /\ Free(p, "orders", {id})
        /\ orders' = [k \in DOMAIN orders |->
                         IF k = id THEN [orders[k] EXCEPT !.status = "paid",
                                                          !.deliveredAt = Some(Now)]
                         ELSE orders[k]]
        /\ proc' = [proc EXCEPT ![p].pc = "L36", ![p].committed = TRUE]
        /\ UNCHANGED <<cards, loginUsers, refundRequests, tx, revalidated, fetched, initial>>

\* lines 31-34: UPDATE orders SET status = 'delivered', delivered_at = now WHERE order_id = orderId
markOrderDelivered_update(p) ==
    LET id == proc[p].orderId
    IN  /\ At(p, "markOrderDelivered", "L31")
        /\ Free(p, "orders", {id})
        /\ orders' = [k \in DOMAIN orders |->
                         IF k = id THEN [orders[k] EXCEPT !.status = "delivered",
                                                          !.deliveredAt = Some(Now)]
                         ELSE orders[k]]
        /\ proc' = [proc EXCEPT ![p].pc = "L36", ![p].committed = TRUE]
        /\ UNCHANGED <<cards, loginUsers, refundRequests, tx, revalidated, fetched, initial>>

\* lines 36-38
markOrderDelivered_revalidate(p) ==
    /\ At(p, "markOrderDelivered", "L36")
    /\ Revalidate({ListPath, DetailPath(proc[p].orderId), PublicPath(proc[p].orderId)})
    /\ Settle(p, Void)
    /\ UNCHANGED <<store, tx, fetched, initial>>

(***************************************************************************)
(* cancelOrder, lines 41-74.                                               *)
(***************************************************************************)
cancelOrder(p, authorized, orderId) ==
    /\ CanCall(p)
    /\ Gate(p, authorized, Request("cancelOrder", orderId), "L47")
    /\ UNCHANGED <<store, tx, revalidated, fetched, initial>>

\* lines 47-52: the transaction's findFirst and the test of line 52
cancelOrder_find(p) ==
    LET order == Found(TxOrders(p), proc[p].orderId, FALSE)
    IN  /\ At(p, "cancelOrder", "L47")
        /\ Usable(p)
        /\ proc' = [proc EXCEPT ![p].order = order,
                                ![p].pc = IF RefundsPoints(order) THEN "L53" ELSE "L58"]
        /\ UNCHANGED <<store, tx, revalidated, fetched, initial>>

\* lines 53-55
cancelOrder_credit(p) ==
    /\ At(p, "cancelOrder", "L53")
    /\ Usable(p)
    /\ CreditPoints(p, proc[p].order)
    /\ Goto(p, "L58")
    /\ UNCHANGED <<store, revalidated, fetched, initial>>

\* line 58: UPDATE orders SET status = 'cancelled' WHERE order_id = orderId
cancelOrder_status(p) ==
    LET id == proc[p].orderId
        rows == TxOrders(p)
    IN  /\ At(p, "cancelOrder", "L58")
        /\ Usable(p)
        /\ IF id \in DOMAIN rows
           THEN /\ ~Locked(p, "orders", id)
                /\ tx' = [tx EXCEPT ![p].orders =
                             Put(@, id, Some([rows[id] EXCEPT !.status = "cancelled"]))]
           ELSE UNCHANGED tx
        /\ Goto(p, "L60")
        /\ UNCHANGED <<store, revalidated, fetched, initial>>

\* lines 59-66: ALTER TABLE cards ADD COLUMN IF NOT EXISTS ..., the columns being there
cancelOrder_alter(p) ==
    /\ At(p, "cancelOrder", "L60")
    /\ Usable(p)
    /\ Goto(p, "L67")
    /\ UNCHANGED <<store, tx, revalidated, fetched, initial>>

\* revalidatePath called inside the transaction callback
cancelOrder_release_revalidates(p) ==
    /\ At(p, "cancelOrder", "L67")
    /\ Usable(p)
    /\ ReleaseCards(p, proc[p].orderId)
    /\ Revalidate({ListPath})
    /\ Goto(p, "L69")
    /\ UNCHANGED <<store, fetched, initial>>

\* lines 67-68
cancelOrder_release(p) ==
    /\ At(p, "cancelOrder", "L67")
    /\ Usable(p)
    /\ ReleaseCards(p, proc[p].orderId)
    /\ Goto(p, "L69")
    /\ UNCHANGED <<store, revalidated, fetched, initial>>

\* line 69: the callback returned, db.transaction commits
cancelOrder_commit(p) ==
    /\ At(p, "cancelOrder", "L69")
    /\ Usable(p)
    /\ Commit(p)
    /\ proc' = [proc EXCEPT ![p].pc = "L71", ![p].committed = TRUE]
    /\ UNCHANGED <<revalidated, fetched, initial>>

\* lines 71-73
cancelOrder_revalidate(p) ==
    /\ At(p, "cancelOrder", "L71")
    /\ Revalidate({ListPath, DetailPath(proc[p].orderId), PublicPath(proc[p].orderId)})
    /\ Settle(p, Void)
    /\ UNCHANGED <<store, tx, fetched, initial>>

(***************************************************************************)
(* updateOrderEmail, lines 76-83.                                          *)
(***************************************************************************)
\* line 80 with email: next instead of email: next || null
NormalizeEmail_noNull(email) ==
    Some(Trim(IF TruthyStr(email) THEN email[1] ELSE <<>>))

\* line 79-80: (email || '').trim() || null
NormalizeEmail(email) ==
    LET next == Trim(IF TruthyStr(email) THEN email[1] ELSE <<>>)
    IN  IF TruthyStr(Some(next)) THEN Some(next) ELSE None

updateOrderEmail(p, authorized, orderId, email) ==
    /\ CanCall(p)
    /\ Gate(p, authorized, [Request("updateOrderEmail", orderId) EXCEPT
                                !.next = NormalizeEmail(email)], "L80")
    /\ UNCHANGED <<store, tx, revalidated, fetched, initial>>

\* line 80: UPDATE orders SET email = next || null WHERE order_id = orderId
updateOrderEmail_update(p) ==
    LET id == proc[p].orderId
    IN  /\ At(p, "updateOrderEmail", "L80")
        /\ Free(p, "orders", {id})
        /\ orders' = [k \in DOMAIN orders |->
                         IF k = id THEN [orders[k] EXCEPT !.email = proc[p].next] ELSE orders[k]]
        /\ proc' = [proc EXCEPT ![p].pc = "L81", ![p].committed = TRUE]
        /\ UNCHANGED <<cards, loginUsers, refundRequests, tx, revalidated, fetched, initial>>

\* lines 81-82
updateOrderEmail_revalidate(p) ==
    /\ At(p, "updateOrderEmail", "L81")
    /\ Revalidate({ListPath, DetailPath(proc[p].orderId)})
    /\ Settle(p, Void)
    /\ UNCHANGED <<store, tx, fetched, initial>>

(***************************************************************************)
(* deleteOneOrder, lines 85-117, run for Head(ids) inside the transaction  *)
(* of deleteOrder or deleteOrders.                                         *)
(***************************************************************************)
Deleting(p) == proc[p].op \in {"deleteOrder", "deleteOrders"}

\* deleteOneOrder returned: the next id of the batch, or the end of the callback
Returned(p) ==
    IF proc[p].i < Len(proc[p].ids)
    THEN proc' = [proc EXCEPT ![p].i = @ + 1, ![p].order = None, ![p].pc = "L86"]
    ELSE proc' = [proc EXCEPT ![p].i = 0, ![p].order = None,
                              ![p].pc = IF proc[p].op = "deleteOrder" THEN "L125" ELSE "L140"]

\* the id deleteOneOrder was called with
Current(p) == proc[p].ids[proc[p].i]

\* line 87 left out: the compensating statements run for an order that was not found
deleteOneOrder_find_noReturn(p) ==
    LET order == Found(TxOrders(p), Current(p), TRUE)
    IN  /\ Deleting(p) /\ proc[p].pc = "L86"
        /\ Usable(p)
        /\ proc' = [proc EXCEPT ![p].order = order,
                                ![p].pc = IF RefundsPoints(order) THEN "L91" ELSE "L98"]
        /\ UNCHANGED <<store, tx, revalidated, fetched, initial>>

\* line 86 with db.query instead of tx.query: the find does not see the transaction's deletes
deleteOneOrder_find_committed(p) ==
    LET order == Found(orders, Current(p), TRUE)
    IN  /\ Deleting(p) /\ proc[p].pc = "L86"
        /\ Usable(p)
        /\ IF order = None THEN Returned(p)
           ELSE proc' = [proc EXCEPT ![p].order = order,
                                     ![p].pc = IF RefundsPoints(order) THEN "L91" ELSE "L98"]
        /\ UNCHANGED <<store, tx, revalidated, fetched, initial>>

\* lines 86-90
deleteOneOrder_find(p) ==
    LET order == Found(TxOrders(p), Current(p), TRUE)
    IN  /\ Deleting(p) /\ proc[p].pc = "L86"
        /\ Usable(p)
        /\ IF order = None THEN Returned(p)
           ELSE proc' = [proc EXCEPT ![p].order = order,
                                     ![p].pc = IF RefundsPoints(order) THEN "L91" ELSE "L98"]
        /\ UNCHANGED <<store, tx, revalidated, fetched, initial>>

\* lines 91-93
deleteOneOrder_credit(p) ==
    /\ Deleting(p) /\ proc[p].pc = "L91"
    /\ Usable(p)
    /\ CreditPoints(p, proc[p].order)
    /\ Goto(p, "L98")
    /\ UNCHANGED <<store, revalidated, fetched, initial>>

\* lines 97-104
deleteOneOrder_alter(p) ==
    /\ Deleting(p) /\ proc[p].pc = "L98"
    /\ Usable(p)
    /\ Goto(p, "L106")
    /\ UNCHANGED <<store, tx, revalidated, fetched, initial>>

\* lines 106-107
deleteOneOrder_release(p) ==
    /\ Deleting(p) /\ proc[p].pc = "L106"
    /\ Usable(p)
    /\ ReleaseCards(p, Current(p))
    /\ Goto(p, "L111")
    /\ UNCHANGED <<store, revalidated, fetched, initial>>

\* lines 110-114 left out
deleteOneOrder_refundRequests_none(p) ==
    /\ Deleting(p) /\ proc[p].pc = "L111"
    /\ Usable(p)
    /\ Goto(p, "L116")
    /\ UNCHANGED <<store, tx, revalidated, fetched, initial>>

\* lines 110-114: DELETE FROM refund_requests WHERE order_id = orderId
deleteOneOrder_refundRequests(p) ==
    LET rows == TxRefundRequests(p)
        hit == {r \in DOMAIN rows : rows[r] = Current(p)}
        gone == [r \in hit |-> None]
    IN  /\ Deleting(p) /\ proc[p].pc = "L111"
        /\ Usable(p)
        /\ Free(p, "refundRequests", hit)
        /\ tx' = [tx EXCEPT ![p].refundRequests = PutAll(@, gone)]
        /\ Goto(p, "L116")
        /\ UNCHANGED <<store, revalidated, fetched, initial>>

\* db.transaction inside the loop of lines 137-139: every order commits on its own
deleteOneOrder_order_commits(p) ==
    LET id == Current(p)
    IN  /\ Deleting(p) /\ proc[p].pc = "L116"
        /\ Usable(p)
        /\ id \in DOMAIN TxOrders(p) => ~Locked(p, "orders", id)
        /\ orders' = [k \in DOMAIN TxOrders(p) \ {id} |-> TxOrders(p)[k]]
        /\ cards' = TxCards(p)
        /\ loginUsers' = TxLoginUsers(p)
        /\ refundRequests' = TxRefundRequests(p)
        /\ tx' = [tx EXCEPT ![p] = NoTx]
        /\ Returned(p)
        /\ UNCHANGED <<revalidated, fetched, initial>>

\* line 116: DELETE FROM orders WHERE order_id = orderId
deleteOneOrder_order(p) ==
    LET id == Current(p)
    IN  /\ Deleting(p) /\ proc[p].pc = "L116"
        /\ Usable(p)
        /\ IF id \in DOMAIN TxOrders(p)
           THEN /\ ~Locked(p, "orders", id)
                /\ tx' = [tx EXCEPT ![p].orders = Put(@, id, None)]
           ELSE UNCHANGED tx
        /\ Returned(p)
        /\ UNCHANGED <<store, revalidated, fetched, initial>>

(***************************************************************************)
(* deleteOrder, lines 119-129.                                             *)
(***************************************************************************)
deleteOrder(p, authorized, orderId) ==
    /\ CanCall(p)
    /\ Gate(p, authorized, [Request("deleteOrder", orderId) EXCEPT !.ids = <<orderId>>, !.i = 1],
            "L86")
    /\ UNCHANGED <<store, tx, revalidated, fetched, initial>>

\* line 125: the callback returned, db.transaction commits
deleteOrder_commit(p) ==
    /\ At(p, "deleteOrder", "L125")
    /\ Usable(p)
    /\ Commit(p)
    /\ proc' = [proc EXCEPT ![p].pc = "L127", ![p].committed = TRUE]
    /\ UNCHANGED <<revalidated, fetched, initial>>

\* lines 127-128
deleteOrder_revalidate(p) ==
    /\ At(p, "deleteOrder", "L127")
    /\ Revalidate({ListPath, DetailPath(proc[p].orderId)})
    /\ Settle(p, Void)
    /\ UNCHANGED <<store, tx, fetched, initial>>

(***************************************************************************)
(* deleteOrders, lines 131-143.                                            *)
(***************************************************************************)
\* line 133 without .map((s) => String(s).trim())
FilterIds_noTrim(orderIds) ==
    SelectSeq(orderIds, LAMBDA s : TruthyStr(Some(s)))

\* line 133: (orderIds || []).map((s) => String(s).trim()).filter(Boolean)
FilterIds(orderIds) ==
    LET trimmed == [i \in DOMAIN orderIds |-> Trim(orderIds[i])]
    IN  SelectSeq(trimmed, LAMBDA s : TruthyStr(Some(s)))

deleteOrders(p, authorized, orderIds) ==
    LET ids == FilterIds(orderIds)
    IN  /\ CanCall(p)
        /\ IF ~authorized THEN Reject(p, authorized, Request("deleteOrders", <<>>), Unauthorized)
           ELSE IF Len(ids) = 0
                THEN proc' = [proc EXCEPT ![p] = [Request("deleteOrders", <<>>) EXCEPT
                                                     !.pc = "done", !.result = Void,
                                                     !.authorized = authorized]]
           ELSE Begin(p, [Request("deleteOrders", <<>>) EXCEPT !.ids = ids, !.i = 1,
                                                                !.authorized = authorized], "L86")
        /\ UNCHANGED <<store, tx, revalidated, fetched, initial>>

\* line 140: the callback returned, db.transaction commits
deleteOrders_commit(p) ==
    /\ At(p, "deleteOrders", "L140")
    /\ Usable(p)
    /\ Commit(p)
    /\ proc' = [proc EXCEPT ![p].pc = "L142", ![p].committed = TRUE]
    /\ UNCHANGED <<revalidated, fetched, initial>>

\* line 142
deleteOrders_revalidate(p) ==
    /\ At(p, "deleteOrders", "L142")
    /\ Revalidate({ListPath})
    /\ Settle(p, Void)
    /\ UNCHANGED <<store, tx, fetched, initial>>

(***************************************************************************)
(* verifyOrderRefundStatus, lines 145-199.                                 *)
(***************************************************************************)
\* lines 149-151 left out: the query is built and sent without the merchant's id or key
verifyOrderRefundStatus_noConfigCheck(p, authorized, orderId, merchantId, merchantKey) ==
    /\ CanCall(p)
    /\ Gate(p, authorized, Request("verifyOrderRefundStatus", orderId), "L177")
    /\ UNCHANGED <<store, tx, revalidated, fetched, initial>>

verifyOrderRefundStatus(p, authorized, orderId, merchantId, merchantKey) ==
    /\ CanCall(p)
    /\ IF authorized /\ TruthyStr(Some(orderId)) /\ ~(TruthyStr(merchantId) /\ TruthyStr(merchantKey))
       THEN Reject(p, authorized, Request("verifyOrderRefundStatus", orderId), "Missing merchant config")
       ELSE Gate(p, authorized, Request("verifyOrderRefundStatus", orderId), "L177")
    /\ UNCHANGED <<store, tx, revalidated, fetched, initial>>

\* lines 180-193 with the meaning of status 0 and status 1 exchanged
Interpret_swapped(r) ==
    IF r.data.code = 1
    THEN IF r.data.status = Some(1)
         THEN [r EXCEPT !.pc = "L183"]
         ELSE IF r.data.status = Some(0)
              THEN Ended(r, Structured(TRUE, r.data.status, Some(<<"Paid (Not Refunded)">>), None))
              ELSE Ended(r, Structured(TRUE, r.data.status, Some(<<"Status: ", r.data.status>>), None))
    ELSE Ended(r, Structured(FALSE, None, None,
                             IF r.data.msg \in {None, Some("")} THEN Some("Query failed")
                             ELSE r.data.msg))

\* lines 180-193: the request r after the handler has read the answer r.data
Interpret(r) ==
    IF r.data.code = 1
    THEN IF r.data.status = Some(0)
         THEN [r EXCEPT !.pc = "L183"]
         ELSE IF r.data.status = Some(1)
              THEN Ended(r, Structured(TRUE, r.data.status, Some(<<"Paid (Not Refunded)">>), None))
              ELSE Ended(r, Structured(TRUE, r.data.status, Some(<<"Status: ", r.data.status>>), None))
    ELSE Ended(r, Structured(FALSE, None, None,
                             IF r.data.msg \in {None, Some("")} THEN Some("Query failed")
                             ELSE r.data.msg))

\* lines 177-193: the query is sent and answered, and the answer read
verifyOrderRefundStatus_fetch(p, data) ==
    /\ At(p, "verifyOrderRefundStatus", "L177")
    /\ fetched' = Append(fetched, proc[p].orderId)
    /\ proc' = [proc EXCEPT ![p] = Interpret([@ EXCEPT !.data = data])]
    /\ UNCHANGED <<store, tx, revalidated, initial>>

\* lines 177-178 and 195-197: fetch or res.json() rejects, the catch returns the failure
verifyOrderRefundStatus_fetchThrows(p) ==
    /\ At(p, "verifyOrderRefundStatus", "L177")
    /\ fetched' = Append(fetched, proc[p].orderId)
    /\ Settle(p, Structured(FALSE, None, None, Some(FetchError)))
    /\ UNCHANGED <<store, tx, revalidated, initial>>

\* line 183: UPDATE orders SET status = 'refunded' WHERE order_id = orderId
verifyOrderRefundStatus_update(p) ==
    LET id == proc[p].orderId
    IN  /\ At(p, "verifyOrderRefundStatus", "L183")
        /\ Free(p, "orders", {id})
        /\ orders' = [k \in DOMAIN orders |->
                         IF k = id THEN [orders[k] EXCEPT !.status = "refunded"] ELSE orders[k]]
        /\ proc' = [proc EXCEPT ![p].pc = "L184", ![p].committed = TRUE]
        /\ UNCHANGED <<cards, loginUsers, refundRequests, tx, revalidated, fetched, initial>>

\* lines 184-185
verifyOrderRefundStatus_revalidate(p) ==
    /\ At(p, "verifyOrderRefundStatus", "L184")
    /\ Revalidate({ListPath})
    /\ Settle(p, Structured(TRUE, proc[p].data.status, Some(<<"Refunded (Verified)">>), None))
    /\ UNCHANGED <<store, tx, fetched, initial>>

(***************************************************************************)
(* Failing round trips to the store.                                       *)
(***************************************************************************)
\* the statements whose rejection leaves the handler: it rolls the transaction back, if any
Statements ==
    {"L13", "L27", "L31", "L47", "L53", "L58", "L67", "L69", "L80",
     "L86", "L91", "L106", "L116", "L125", "L140"}

\* the statements inside try { } catch { } of lines 59-66, 97-104 and 110-114
BestEffort == {"L60", "L98", "L111"}

\* the statements run without db.transaction: what ran before the rejection stays
StatementThrows_noRollback(p) ==
    /\ proc[p].pc \in Statements
    /\ Commit(p)
    /\ proc' = [proc EXCEPT ![p].pc = "done", ![p].result = Raised(StoreError),
                            ![p].order = None, ![p].i = 0, ![p].undone = DOMAIN tx[p].orders]
    /\ UNCHANGED <<revalidated, fetched, initial>>

StatementThrows(p) ==
    /\ proc[p].pc \in Statements
    /\ tx' = [tx EXCEPT ![p] = NoTx]
    /\ proc' = [proc EXCEPT ![p].pc = "done", ![p].result = Raised(StoreError),
                            ![p].order = None, ![p].i = 0, ![p].undone = DOMAIN tx[p].orders]
    /\ UNCHANGED <<store, revalidated, fetched, initial>>

\* lines 64-66, 102-104, 112-114: the rejection is swallowed and the callback goes on; the
\* store decides whether the transaction takes further statements (aborted) or not
BestEffortThrows(p, aborted) ==
    /\ proc[p].pc \in BestEffort
    /\ tx[p].poisoned => aborted
    /\ tx' = [tx EXCEPT ![p].poisoned = aborted]
    /\ proc' = [proc EXCEPT ![p].pc = CASE proc[p].pc = "L60" -> "L67"
                                        [] proc[p].pc = "L98" -> "L106"
                                        [] proc[p].pc = "L111" -> "L116",
                            ![p].skipped = IF proc[p].pc = "L111" THEN @ \cup {Current(p)} ELSE @]
    /\ UNCHANGED <<store, revalidated, fetched, initial>>

\* the update of line 183 outside the try: its rejection leaves the handler
verifyOrderRefundStatus_updateThrows_raises(p) ==
    /\ At(p, "verifyOrderRefundStatus", "L183")
    /\ Settle(p, Raised(StoreError))
    /\ UNCHANGED <<store, tx, revalidated, fetched, initial>>

\* lines 183 and 195-197: the update rejects inside the try, the catch returns the failure
verifyOrderRefundStatus_updateThrows(p) ==
    /\ At(p, "verifyOrderRefundStatus", "L183")
    /\ Settle(p, Structured(FALSE, None, None, Some(StoreError)))
    /\ UNCHANGED <<store, tx, revalidated, fetched, initial>>

(***************************************************************************)
(* The initial store and the specification.                                *)
(***************************************************************************)
\* the timestamp of what happened before the first request
Earlier == Some(0)

\* Order A is pending, owned by U, paid for with MaxPoints points and has a card key; order B
\* is another pending order of U; card c1 is reserved for A, card c2 for B; each order has a
\* refund request.  Every other initial store differs from this one in one respect; without
\* order B, card c2 is still reserved for the order id B.
Base == [status |-> "pending", userId |-> Some(U), pointsUsed |-> Some(MaxPoints),
         cardKey |-> Some(<<"k">>), hasB |-> TRUE, isUsed |-> FALSE, points |-> MaxBalance,
         refunds |-> TRUE]

Scenarios ==
    {[Base EXCEPT !.status = s] : s \in OrderStatus}
    \cup {[Base EXCEPT !.cardKey = k] : k \in {None, Some(<<>>)}}
    \cup {[Base EXCEPT !.pointsUsed = n] : n \in {None} \cup {Some(i) : i \in 0..MaxPoints}}
    \cup {[Base EXCEPT !.points = n] : n \in 0..MaxBalance}
    \cup {[Base EXCEPT !.userId = None], [Base EXCEPT !.hasB = FALSE],
          [Base EXCEPT !.isUsed = TRUE], [Base EXCEPT !.refunds = FALSE]}

InitOrderA(s) ==
    [OrderRow(s.status, s.userId, s.pointsUsed, s.cardKey) EXCEPT
        !.paidAt = IF s.status \in {"paid", "delivered", "refunded"} THEN Earlier ELSE None,
        !.deliveredAt = IF s.status = "delivered" THEN Earlier ELSE None]

InitOrderB == OrderRow("pending", Some(U), Some(1), Some(<<"k">>))

InitOrders(s) ==
    [id \in (IF s.hasB THEN {A, B} ELSE {A}) |-> IF id = A THEN InitOrderA(s) ELSE InitOrderB]

InitCards(s) ==
    [c \in CardIds |-> IF c = "c1" THEN CardRow(s.isUsed, Some(A), Earlier)
                       ELSE CardRow(FALSE, Some(B), Earlier)]

InitRefundRequests(s) ==
    [r \in (IF ~s.refunds THEN {} ELSE IF s.hasB THEN RefundIds ELSE {"r1"}) |->
        IF r = "r1" THEN A ELSE B]

Init ==
    /\ \E s \in Scenarios :
          /\ orders = InitOrders(s)
          /\ cards = InitCards(s)
          /\ loginUsers = [u \in UserIds |-> IF u = U THEN s.points ELSE 0]
          /\ refundRequests = InitRefundRequests(s)
    /\ tx = [p \in Procs |-> NoTx]
    /\ proc = [p \in Procs |-> Idle]
    /\ revalidated = EmptyBag
    /\ fetched = <<>>
    /\ initial = [orders |-> orders, cards |-> cards, loginUsers |-> loginUsers,
                  refundRequests |-> refundRequests]

\* The arguments of the requests.  The first request is any call of any handler; the second
\* is a cancelOrder, deleteOrder or markOrderPaid that passes the gate.
Callers(p) == IF p = 1 THEN BOOLEAN ELSE {TRUE}
ArgIds(p) == IF p = 1 THEN {<<>>, A, B} ELSE {A, B}
Env == {None, Some(<<>>), Some(<<"m">>)}
RawIds == {<<>>, <<" ">>, <<"A", " ">>, B}
Emails == {None, Some(<<>>), Some(<<" ">>), Some(<<" ", "a", " ">>)}

RECURSIVE Lists(_, _)
Lists(S, n) == IF n = 0 THEN {<<>>}
               ELSE Lists(S, n - 1) \cup {Append(l, x) : l \in {m \in Lists(S, n - 1) : Len(m) = n - 1}, x \in S}

AllBatches == Lists(RawIds, MaxBatch)

Batches(p) == IF p = 1 THEN AllBatches ELSE {}

Next ==
    \E p \in Procs :
        \/ /\ CanCall(p)
           /\ \E authorized \in Callers(p), orderId \in ArgIds(p) :
                 \/ markOrderPaid(p, authorized, orderId)
                 \/ cancelOrder(p, authorized, orderId)
                 \/ deleteOrder(p, authorized, orderId)
        \/ /\ CanCall(p) /\ p = 1
           /\ \E authorized \in BOOLEAN, orderId \in ArgIds(p) :
                 \/ markOrderDelivered(p, authorized, orderId)
                 \/ \E email \in Emails : updateOrderEmail(p, authorized, orderId, email)
                 \/ \E merchantId \in Env, merchantKey \in Env :
                       verifyOrderRefundStatus(p, authorized, orderId, merchantId, merchantKey)
        \/ /\ CanCall(p)
           /\ \E authorized \in BOOLEAN, orderIds \in Batches(p) :
                 deleteOrders(p, authorized, orderIds)
        \/ markOrderPaid_update(p)
        \/ markOrderPaid_revalidate(p)
        \/ markOrderDelivered_find(p)
        \/ markOrderDelivered_update(p)
        \/ markOrderDelivered_revalidate(p)
        \/ cancelOrder_find(p)
        \/ cancelOrder_credit(p)
        \/ cancelOrder_status(p)
        \/ cancelOrder_alter(p)
        \/ cancelOrder_release(p)
        \/ cancelOrder_commit(p)
        \/ cancelOrder_revalidate(p)
        \/ updateOrderEmail_update(p)
        \/ updateOrderEmail_revalidate(p)
        \/ deleteOneOrder_find(p)
        \/ deleteOneOrder_credit(p)
        \/ deleteOneOrder_alter(p)
        \/ deleteOneOrder_release(p)
        \/ deleteOneOrder_refundRequests(p)
        \/ deleteOneOrder_order(p)
        \/ deleteOrder_commit(p)
        \/ deleteOrder_revalidate(p)
        \/ deleteOrders_commit(p)
        \/ deleteOrders_revalidate(p)
        \/ \E data \in GatewayResponses : verifyOrderRefundStatus_fetch(p, data)
        \/ verifyOrderRefundStatus_fetchThrows(p)
        \/ verifyOrderRefundStatus_update(p)
        \/ verifyOrderRefundStatus_revalidate(p)
        \/ verifyOrderRefundStatus_updateThrows(p)
        \/ StatementThrows(p)
        \/ \E aborted \in BOOLEAN : BestEffortThrows(p, aborted)

Spec == Init /\ [][Next]_vars

(***************************************************************************)
(* The claims.                                                             *)
(***************************************************************************)
\* the step is one of request p
Stepped(p) == proc'[p] # proc[p]

InitialStore == <<initial.orders, initial.cards, initial.loginUsers, initial.refundRequests>>

\* C1: when two cancelOrder calls for the same order, paid for with p > 0 points of user u,
\* run concurrently (the second began while the transaction of the first was open), the
\* balance of u after both have committed is its initial balance + p.
C1_ConcurrentCancelCreditsOnce ==
    \A o \in DOMAIN initial.orders :
        LET order == Some(initial.orders[o])
        IN  (/\ RefundsPoints(order)
             /\ \A p \in Procs : /\ proc[p].op = "cancelOrder" /\ proc[p].orderId = o
                                 /\ proc[p].committed
             /\ \E p \in Procs : proc[p].overlapped)
            => loginUsers[order[1].userId[1]]
                   = initial.loginUsers[order[1].userId[1]] + order[1].pointsUsed[1]

\* C2: the commit of a cancelOrder of an existing order O adds pointsUsed(O) to the balance of
\* O's user and changes no other balance when O has a user and pointsUsed(O) > 0, and changes
\* no balance at all otherwise.
C2_CancelCreditsExactly ==
    [][\A p \in Procs :
          (/\ At(p, "cancelOrder", "L69") /\ proc'[p].pc = "L71"
           /\ proc[p].orderId \in DOMAIN orders)
          => LET order == Some(orders[proc[p].orderId])
             IN  loginUsers' = IF RefundsPoints(order)
                               THEN [loginUsers EXCEPT ![order[1].userId[1]] =
                                        @ + order[1].pointsUsed[1]]
                               ELSE loginUsers]_vars

C2_Witness ==
    \E p \in Procs :
        /\ At(p, "cancelOrder", "L71") /\ proc[p].orderId = A
        /\ A \in DOMAIN orders /\ RefundsPoints(Some(orders[A]))
        /\ loginUsers[U] = initial.loginUsers[U] + orders[A].pointsUsed[1]
        /\ loginUsers[V] = initial.loginUsers[V]

\* C3: cancelOrder is all-or-nothing: no step of it but the commit changes a committed row,
\* a step in which it fails leaves the store as it is and drops what its transaction wrote,
\* so nothing of it surfaces later, and the commit brings the cancelled status and the
\* released cards together.
C3_CancelAllOrNothing ==
    [][\A p \in Procs :
          (proc'[p].op = "cancelOrder" /\ Stepped(p))
          => IF proc[p].pc = "L69" /\ proc'[p].pc = "L71"
             THEN /\ proc[p].orderId \in DOMAIN orders' =>
                        orders'[proc[p].orderId].status = "cancelled"
                  /\ \A c \in DOMAIN cards' :
                        cards'[c].reservedOrderId = Some(proc[p].orderId) => cards'[c].isUsed
             ELSE /\ UNCHANGED store
                  /\ proc'[p].result.kind = "raised" => tx'[p] = NoTx /\ UNCHANGED revalidated]_vars

C3_Witness ==
    \E p \in Procs :
        /\ proc[p].op = "cancelOrder" /\ proc[p].pc = "done"
        /\ proc[p].result = Raised(StoreError)
        /\ proc[p].undone = {A} /\ RefundsPoints(Some(initial.orders[A]))
        /\ store = InitialStore
        /\ tx[p] = NoTx

\* C4: deleteOrders is all-or-nothing over the batch: no step of it but the commit changes a
\* committed row, a step in which it fails (while deleting any order of the batch) leaves the
\* store as it is and drops what the transaction wrote for the orders before, and after the
\* commit no order of the batch is left.
C4_BatchAllOrNothing ==
    [][\A p \in Procs :
          (proc'[p].op = "deleteOrders" /\ Stepped(p))
          => IF proc[p].pc = "L140" /\ proc'[p].pc = "L142"
             THEN \A k \in 1..Len(proc[p].ids) : proc[p].ids[k] \notin DOMAIN orders'
             ELSE /\ UNCHANGED store
                  /\ proc'[p].result.kind = "raised" => tx'[p] = NoTx]_vars

C4_Witness ==
    \E p \in Procs :
        /\ proc[p].op = "deleteOrders" /\ proc[p].ids = <<A, B>>
        /\ proc[p].pc = "done" /\ proc[p].result = Raised(StoreError)
        /\ proc[p].undone = {A}
        /\ store = InitialStore
        /\ tx[p] = NoTx

\* C5: every step of a request whose caller the authorization gate rejects is the one step in
\* which it arrives and fails with Unauthorized, and that step changes no row, opens no
\* transaction, sends no gateway query and invalidates no view.
C5_UnauthorizedDoesNothing ==
    [][\A p \in Procs :
          (Stepped(p) /\ ~proc'[p].authorized)
          => /\ proc[p].pc = "idle" /\ proc'[p].pc = "done"
             /\ proc'[p].result = Raised(Unauthorized)
             /\ UNCHANGED <<store, tx, revalidated, fetched>>]_vars

C5_Witness ==
    \E p \in Procs :
        /\ proc[p].op = "verifyOrderRefundStatus" /\ ~proc[p].authorized
        /\ proc[p].result = Raised(Unauthorized)
        /\ store = InitialStore /\ fetched = <<>> /\ revalidated = EmptyBag

\* C6: a view is invalidated only in a step of a request whose store mutation or transaction
\* has committed and which holds no open transaction, and that request does not fail; a
\* request that has failed has committed nothing, so it invalidated nothing.
C6_RevalidateAfterCommit ==
    /\ [](\A p \in Procs : proc[p].result.kind = "raised" => ~proc[p].committed)
    /\ [][revalidated' # revalidated =>
             \E p \in Procs : /\ Stepped(p)
                              /\ proc[p].committed /\ tx[p] = NoTx
                              /\ proc'[p].pc = "done" /\ proc'[p].result.kind # "raised"]_vars

C6_Witness ==
    \E p \in Procs :
        /\ proc[p].op = "cancelOrder" /\ proc[p].pc = "done" /\ proc[p].committed
        /\ proc[p].result = Void
        /\ BagIn(ListPath, revalidated) /\ BagIn(PublicPath(proc[p].orderId), revalidated)

\* C7: markOrderDelivered on an existing order without a card key (null or empty) ends with
\* "Missing card key; cannot mark delivered" (or with the store's own error) and changes no
\* row; it reaches its update only with a card key read; so an order that did not start as
\* delivered has status delivered only if it has a non-empty card key.
C7_DeliveredNeedsCardKey ==
    /\ [](\A p \in Procs :
             /\ (proc[p].op = "markOrderDelivered" /\ proc[p].pc \in {"L31", "L36"})
                => proc[p].order # None /\ TruthyStr(proc[p].order[1].cardKey)
             /\ proc[p].result = Raised(MissingCardKey)
                => /\ proc[p].op = "markOrderDelivered" /\ ~proc[p].committed
                   /\ ~TruthyStr(initial.orders[proc[p].orderId].cardKey))
    /\ [](\A id \in DOMAIN orders :
             (orders[id].status = "delivered" /\ initial.orders[id].status # "delivered")
             => TruthyStr(orders[id].cardKey))
    /\ [][\A p \in Procs :
             (/\ At(p, "markOrderDelivered", "L27") /\ Stepped(p)
              /\ proc[p].orderId \in DOMAIN orders
              /\ ~TruthyStr(orders[proc[p].orderId].cardKey))
             => /\ proc'[p].result \in {Raised(MissingCardKey), Raised(StoreError)}
                /\ UNCHANGED store]_vars

C7_Witness ==
    \E p \in Procs :
        /\ proc[p].op = "markOrderDelivered" /\ proc[p].orderId = A
        /\ proc[p].result = Raised(MissingCardKey)
        /\ A \in DOMAIN orders /\ orders[A] = initial.orders[A]
        /\ orders[A].status # "delivered" /\ orders[A].deliveredAt = None

Refunded == [code |-> 1, status |-> Some(0), msg |-> None]

\* C8: verifyOrderRefundStatus changes a row only in its update after the gateway answered
\* code 1 and status 0, and the change is the status refunded of the rows with its order id;
\* it invalidates a view only after that update.  Its result is success with "Refunded
\* (Verified)" exactly when that update was made, success with "Paid (Not Refunded)" for code
\* 1 and status 1, success for another status, and a failure with an error for a code other
\* than 1, for a failed fetch and for a failed update.
C8_VerifyMutatesOnlyWhenRefunded ==
    /\ [](\A p \in Procs :
             (proc[p].op = "verifyOrderRefundStatus" /\ proc[p].result.kind = "structured")
             => LET d == proc[p].data
                    r == proc[p].result
                IN  /\ proc[p].committed
                       <=> r = Structured(TRUE, Some(0), Some(<<"Refunded (Verified)">>), None)
                    /\ proc[p].committed => d = Refunded
                    /\ (d.code = 1 /\ d.status = Some(0) /\ ~proc[p].committed)
                       => r = Structured(FALSE, None, None, Some(StoreError))
                    /\ (d.code = 1 /\ d.status = Some(1))
                       => r = Structured(TRUE, Some(1), Some(<<"Paid (Not Refunded)">>), None)
                    /\ (d.code = 1 /\ d.status \notin {Some(0), Some(1)})
                       => r.success /\ r.status = d.status /\ r.error = None
                    /\ d.code # 1 => ~r.success /\ r.error # None /\ r.msg = None)
    /\ [][\A p \in Procs :
             (proc'[p].op = "verifyOrderRefundStatus" /\ Stepped(p))
             => /\ store' # store
                   => /\ proc[p].pc = "L183" /\ proc[p].data = Refunded
                      /\ orders' = [k \in DOMAIN orders |->
                                       IF k = proc[p].orderId
                                       THEN [orders[k] EXCEPT !.status = "refunded"]
                                       ELSE orders[k]]
                      /\ UNCHANGED <<cards, loginUsers, refundRequests>>
                /\ revalidated' # revalidated
                   => /\ proc[p].committed /\ proc[p].data = Refunded
                      /\ revalidated' = revalidated (+) SetToBag({ListPath})]_vars

C8_Witness ==
    \E p \in Procs :
        /\ proc[p].op = "verifyOrderRefundStatus" /\ proc[p].pc = "done"
        /\ proc[p].orderId = A /\ proc[p].data = Refunded
        /\ proc[p].result = Structured(TRUE, Some(0), Some(<<"Refunded (Verified)">>), None)
        /\ A \in DOMAIN orders /\ orders[A].status = "refunded"
        /\ initial.orders[A].status # "refunded"
        /\ BagIn(ListPath, revalidated)

\* C9 as stated: every verifyOrderRefundStatus call that has ended, whatever its input and
\* environment, has returned a structured result.
C9_NeverRaises ==
    \A p \in Procs :
        (proc[p].op = "verifyOrderRefundStatus" /\ proc[p].pc = "done")
        => proc[p].result.kind = "structured"

\* C9 as amended: a verifyOrderRefundStatus call that has ended has returned a structured
\* result unless it was rejected by the authorization check, for an empty order id or for a
\* missing merchant id or key, the three checks it throws from before any I/O.
C9_RaisesOnlyFromItsChecks ==
    \A p \in Procs :
        (proc[p].op = "verifyOrderRefundStatus" /\ proc[p].pc = "done")
        => \/ proc[p].result.kind = "structured"
           \/ /\ proc[p].result = Raised(Unauthorized) /\ ~proc[p].authorized
           \/ /\ proc[p].result = Raised("Missing order id") /\ proc[p].orderId = <<>>
              /\ proc[p].authorized
           \/ /\ proc[p].result = Raised("Missing merchant config") /\ proc[p].orderId # <<>>
              /\ proc[p].authorized

C9_Witness ==
    \E p \in Procs :
        /\ proc[p].op = "verifyOrderRefundStatus" /\ proc[p].pc = "done"
        /\ proc[p].result = Structured(FALSE, None, None, Some(FetchError))
        /\ fetched = <<proc[p].orderId>>

\* the step changes the status of order id from old to new, and is one of request p
Changes(p, id, old, new) ==
    /\ Stepped(p)
    /\ id \in DOMAIN orders /\ id \in DOMAIN orders'
    /\ orders[id].status = old /\ orders'[id].status = new /\ old # new
    /\ proc[p].orderId = id

\* C10 as stated: every change of an order's status is pending to paid by markOrderPaid, paid
\* to delivered by markOrderDelivered with a card key, a status other than cancelled and
\* refunded to cancelled by cancelOrder, or a change to refunded by verifyOrderRefundStatus
\* after the gateway confirmed the refund.
C10_LifecycleTransitions ==
    [][\A id \in OrderIds :
          (id \in DOMAIN orders /\ id \in DOMAIN orders' /\ orders'[id].status # orders[id].status)
          => \E p \in Procs :
                \/ /\ Changes(p, id, "pending", "paid") /\ proc[p].op = "markOrderPaid"
                \/ /\ Changes(p, id, "paid", "delivered") /\ proc[p].op = "markOrderDelivered"
                   /\ TruthyStr(orders[id].cardKey)
                \/ \E old \in OrderStatus \ {"cancelled", "refunded"} :
                      Changes(p, id, old, "cancelled") /\ proc[p].op = "cancelOrder"
                \/ \E old \in OrderStatus :
                      /\ Changes(p, id, old, "refunded")
                      /\ proc[p].op = "verifyOrderRefundStatus" /\ proc[p].data = Refunded]_vars

\* C10 as amended: every change of an order's status is a change from any status to paid by
\* markOrderPaid, from any status to delivered by markOrderDelivered with a card key, from
\* any status to cancelled by cancelOrder, or from any status to refunded by
\* verifyOrderRefundStatus after the gateway confirmed the refund.
C10_Transitions ==
    [][\A id \in OrderIds :
          (id \in DOMAIN orders /\ id \in DOMAIN orders' /\ orders'[id].status # orders[id].status)
          => \E p \in Procs, old \in OrderStatus :
                \/ /\ Changes(p, id, old, "paid") /\ proc[p].op = "markOrderPaid"
                \/ /\ Changes(p, id, old, "delivered") /\ proc[p].op = "markOrderDelivered"
                   /\ TruthyStr(orders[id].cardKey)
                \/ /\ Changes(p, id, old, "cancelled") /\ proc[p].op = "cancelOrder"
                \/ /\ Changes(p, id, old, "refunded")
                   /\ proc[p].op = "verifyOrderRefundStatus" /\ proc[p].data = Refunded]_vars

C10_Witness ==
    \E p \in Procs :
        /\ proc[p].op = "markOrderPaid" /\ proc[p].orderId = A /\ proc[p].committed
        /\ initial.orders[A].status = "cancelled"
        /\ A \in DOMAIN orders /\ orders[A].status = "paid"

\* the step commits the transaction of request p
Commits(p) == Stepped(p) /\ ~proc[p].committed /\ proc'[p].committed

\* the orders the committing cancelOrder or deletion of request p is about: the order id a
\* cancelOrder was called with, the existing orders among the ids of a deletion
Subjects(p) ==
    IF proc[p].op = "cancelOrder" THEN {proc[p].orderId}
    ELSE {proc[p].ids[i] : i \in DOMAIN proc[p].ids} \cap DOMAIN orders

\* C11: the commit of cancelOrder(X), or of a deletion of an existing order X, leaves every
\* card that was reserved for X and not used with reservedOrderId and reservedAt null, and
\* every other card (used, or reserved for another order) as it was.
C11_ReleasesUnusedCards ==
    [][\A p \in Procs :
          (Commits(p) /\ proc[p].op \in {"cancelOrder", "deleteOrder", "deleteOrders"})
          => /\ DOMAIN cards' = DOMAIN cards
             /\ \A c \in DOMAIN cards :
                   cards'[c] = IF /\ cards[c].isUsed = FALSE
                                  /\ \E x \in Subjects(p) : cards[c].reservedOrderId = Some(x)
                               THEN [cards[c] EXCEPT !.reservedOrderId = None, !.reservedAt = None]
                               ELSE cards[c]]_vars

C11_Witness ==
    \E p \in Procs :
        /\ proc[p].op \in {"deleteOrder", "deleteOrders"} /\ proc[p].committed
        /\ A \notin DOMAIN orders /\ B \in DOMAIN orders
        /\ initial.cards["c1"] = CardRow(FALSE, Some(A), Earlier)
        /\ cards["c1"] = CardRow(FALSE, None, None)
        /\ cards["c2"] = initial.cards["c2"] /\ cards["c2"].reservedOrderId = Some(B)

\* every request that has arrived is a deleteOrder or deleteOrders call
OnlyDeletions == \A p \in Procs : proc[p].op \in {"none", "deleteOrder", "deleteOrders"}

\* C12 as stated: the commit of deleteOrder(X) of an existing order X leaves no order row X and
\* no refund request of X; so, every refund request referring to an existing order at first,
\* after deleteOrder and deleteOrders calls no refund request refers to a missing order.
C12_DeleteRemovesRefundRequests ==
    /\ [](OnlyDeletions => \A r \in DOMAIN refundRequests : refundRequests[r] \in DOMAIN orders)
    /\ [][\A p \in Procs :
             (Commits(p) /\ proc[p].op = "deleteOrder" /\ proc[p].orderId \in DOMAIN orders)
             => /\ proc[p].orderId \notin DOMAIN orders'
                /\ \A r \in DOMAIN refundRequests' : refundRequests'[r] # proc[p].orderId]_vars

\* C12 as amended: the commit of deleteOrder(X) of an existing order X leaves no order row X,
\* and no refund request of X unless the delete of X's refund requests failed and was
\* swallowed; so a refund request refers to a missing order only if a request's delete of the
\* refund requests of that order failed.
C12_DeleteRemovesRefundRequestsBestEffort ==
    /\ [](OnlyDeletions => \A r \in DOMAIN refundRequests :
                               \/ refundRequests[r] \in DOMAIN orders
                               \/ \E p \in Procs : refundRequests[r] \in proc[p].skipped)
    /\ [][\A p \in Procs :
             (Commits(p) /\ proc[p].op = "deleteOrder" /\ proc[p].orderId \in DOMAIN orders)
             => /\ proc[p].orderId \notin DOMAIN orders'
                /\ proc[p].orderId \notin proc[p].skipped
                   => \A r \in DOMAIN refundRequests' : refundRequests'[r] # proc[p].orderId]_vars

C12_Witness ==
    \E p \in Procs :
        /\ proc[p].op = "deleteOrder" /\ proc[p].orderId = A /\ proc[p].committed
        /\ proc[p].skipped = {}
        /\ A \in DOMAIN initial.orders /\ A \notin DOMAIN orders
        /\ "r1" \in DOMAIN initial.refundRequests /\ initial.refundRequests["r1"] = A
        /\ DOMAIN refundRequests = {"r2"} /\ refundRequests["r2"] = B /\ B \in DOMAIN orders

\* request p is deleteOrder(X) for a non-empty X of which the store never had an order
DeletesMissing(p) ==
    /\ proc[p].op = "deleteOrder" /\ proc[p].authorized
    /\ proc[p].orderId # <<>> /\ proc[p].orderId \notin DOMAIN initial.orders

\* C13: deleteOrder(X) for an order id X without an order row ends without an error of its
\* own (it resolves, or rejects with the error of a failed store round trip), writes nothing
\* in its transaction and changes no order, card, user or refund-request row; the find of
\* line 86 that returns no order is followed by the end of the callback.
C13_DeleteMissingIsNoOp ==
    /\ [](\A p \in Procs :
             DeletesMissing(p) => /\ tx[p] = NoTx
                                  /\ proc[p].result \in {NoResult, Void, Raised(StoreError)})
    /\ [][\A p \in Procs :
             /\ (DeletesMissing(p) /\ Stepped(p)) => UNCHANGED store
             /\ (/\ At(p, "deleteOrder", "L86") /\ Stepped(p)
                 /\ proc[p].orderId \notin DOMAIN orders /\ proc'[p].pc # "done")
                => proc'[p].pc = "L125" /\ UNCHANGED <<store, tx>>]_vars

C13_Witness ==
    \E p \in Procs :
        /\ DeletesMissing(p) /\ proc[p].orderId = B
        /\ proc[p].pc = "done" /\ proc[p].result = Void /\ proc[p].committed
        /\ store = InitialStore
        /\ cards["c2"] = CardRow(FALSE, Some(B), Earlier)
        /\ BagIn(DetailPath(B), revalidated)

\* every id of the list is empty or made of blanks only
AllBlank(orderIds) ==
    \A i \in DOMAIN orderIds : \A j \in DOMAIN orderIds[i] : orderIds[i][j] = " "

\* C14: an authorized deleteOrders call with an empty list, or with empty and blank ids only,
\* resolves in its one step without a transaction, a row change or an invalidation, and takes
\* no step after it; a deleteOrders call with ids left invalidates the list view once, in the
\* step after its commit and in no other step, and that step ends it.
C14_EmptyBatchIsNoOp ==
    /\ [](\A p \in Procs :
             (proc[p].op = "deleteOrders" /\ proc[p].authorized /\ proc[p].ids = <<>>)
             => /\ proc[p].pc = "done" /\ proc[p].result = Void
                /\ ~proc[p].committed /\ tx[p] = NoTx)
    /\ [][\A p \in Procs :
             /\ (proc[p].pc = "idle" /\ proc'[p].op = "deleteOrders")
                => \A orderIds \in AllBatches :
                      (AllBlank(orderIds) /\ deleteOrders(p, TRUE, orderIds))
                      => /\ proc'[p].pc = "done" /\ proc'[p].result = Void
                         /\ proc'[p].ids = <<>>
                         /\ UNCHANGED <<store, tx, revalidated, fetched>>
             /\ proc[p].pc = "done" => ~Stepped(p)
             /\ (proc[p].op = "deleteOrders" /\ Stepped(p))
                => IF proc[p].pc = "L142"
                   THEN /\ revalidated' = revalidated (+) SetToBag({ListPath})
                        /\ proc[p].committed /\ proc[p].ids # <<>>
                        /\ proc'[p].pc = "done" /\ proc'[p].result = Void
                   ELSE revalidated' = revalidated
             /\ (At(p, "deleteOrders", "L140") /\ Stepped(p))
                => \/ proc'[p].pc = "L142" /\ proc'[p].committed
                   \/ proc'[p].result = Raised(StoreError) /\ UNCHANGED store]_vars

C14_Witness ==
    \E p \in Procs :
        /\ proc[p].op = "deleteOrders" /\ proc[p].authorized /\ proc[p].ids = <<>>
        /\ proc[p].pc = "done" /\ proc[p].result = Void
        /\ \A q \in Procs \ {p} : proc[q].pc = "idle"
        /\ store = InitialStore /\ revalidated = EmptyBag /\ tx[p] = NoTx

\* the step is an authorized call, with an empty order id, of one of the six handlers that
\* take an order id
CallsWithoutId(p) ==
    \/ markOrderPaid(p, TRUE, <<>>)
    \/ markOrderDelivered(p, TRUE, <<>>)
    \/ cancelOrder(p, TRUE, <<>>)
    \/ \E email \in Emails : updateOrderEmail(p, TRUE, <<>>, email)
    \/ deleteOrder(p, TRUE, <<>>)
    \/ \E merchantId \in Env, merchantKey \in Env :
          verifyOrderRefundStatus(p, TRUE, <<>>, merchantId, merchantKey)

\* the step is an authorized verifyOrderRefundStatus call with an order id and without the
\* merchant's id or key
VerifiesWithoutConfig(p) ==
    \E orderId \in OrderIds, merchantId \in Env, merchantKey \in Env :
        /\ ~(TruthyStr(merchantId) /\ TruthyStr(merchantKey))
        /\ verifyOrderRefundStatus(p, TRUE, orderId, merchantId, merchantKey)

\* C15: an authorized call with an empty order id ends in its one step with "Missing order
\* id", and an authorized verifyOrderRefundStatus call without merchant id or key with
\* "Missing merchant config"; that step changes no row, opens no transaction, sends no query
\* and invalidates nothing, and the request takes no other step.
C15_ArgumentChecksBeforeIO ==
    /\ [](\A p \in Procs :
             proc[p].result \in {Raised("Missing order id"), Raised("Missing merchant config")}
             => /\ proc[p].pc = "done" /\ proc[p].authorized
                /\ ~proc[p].committed /\ tx[p] = NoTx
                /\ proc[p].orderId = <<>> <=> proc[p].result = Raised("Missing order id"))
    /\ [][\A p \in Procs :
             /\ (proc[p].pc = "idle" /\ Stepped(p) /\ CallsWithoutId(p))
                => /\ proc'[p].pc = "done" /\ proc'[p].result = Raised("Missing order id")
                   /\ UNCHANGED <<store, tx, revalidated, fetched>>
             /\ (proc[p].pc = "idle" /\ Stepped(p) /\ VerifiesWithoutConfig(p))
                => /\ proc'[p].pc = "done" /\ proc'[p].result = Raised("Missing merchant config")
                   /\ UNCHANGED <<store, tx, revalidated, fetched>>
             /\ (/\ Stepped(p)
                 /\ proc'[p].result \in {Raised("Missing order id"),
                                          Raised("Missing merchant config")})
                => proc[p].pc = "idle" /\ UNCHANGED <<store, tx, revalidated, fetched>>]_vars

C15_Witness ==
    \E p \in Procs :
        /\ proc[p].op = "verifyOrderRefundStatus" /\ proc[p].authorized /\ proc[p].orderId = A
        /\ proc[p].pc = "done" /\ proc[p].result = Raised("Missing merchant config")
        /\ \A q \in Procs \ {p} : proc[q].pc = "idle"
        /\ store = InitialStore /\ fetched = <<>> /\ revalidated = EmptyBag

Blanks(n) == [i \in 1..n |-> " "]

\* next is email without its leading and trailing blanks, or null when nothing is left
IsTrimOf(next, email) ==
    LET e == IF email = None THEN <<>> ELSE email[1]
    IN  IF \A j \in DOMAIN e : e[j] = " "
        THEN next = None
        ELSE /\ next # None
             /\ LET t == next[1]
                IN  /\ t # <<>> /\ t[1] # " " /\ t[Len(t)] # " "
                    /\ \E i \in 0..Len(e), n \in 0..Len(e) : e = Blanks(i) \o t \o Blanks(n)

\* C16: updateOrderEmail(orderId, email) stores the email without its leading and trailing
\* blanks, or null when email is null, empty or blank; its update changes the email of the
\* orders with that id and nothing else, and no other step of it changes a row.
C16_EmailTrimmed ==
    [][\A p \in Procs :
          /\ (proc[p].pc = "idle" /\ Stepped(p))
             => \A orderId \in OrderIds, email \in Emails :
                   updateOrderEmail(p, TRUE, orderId, email) => IsTrimOf(proc'[p].next, email)
          /\ (proc[p].op = "updateOrderEmail" /\ Stepped(p))
             => /\ proc'[p].next = proc[p].next
                /\ UNCHANGED <<cards, loginUsers, refundRequests>>
                /\ DOMAIN orders' = DOMAIN orders
                /\ \A k \in DOMAIN orders :
                      IF k = proc[p].orderId /\ proc'[p].pc = "L81"
                      THEN /\ orders'[k].email = proc[p].next
                           /\ [orders'[k] EXCEPT !.email = None] = [orders[k] EXCEPT !.email = None]
                      ELSE orders'[k] = orders[k]]_vars

C16_Witness ==
    \E p \in Procs :
        /\ proc[p].op = "updateOrderEmail" /\ proc[p].orderId = A /\ proc[p].pc = "done"
        /\ proc[p].result = Void
        /\ \A q \in Procs \ {p} : proc[q].pc = "idle"
        /\ orders[A].email = Some(<<"a">>)
        /\ orders = [initial.orders EXCEPT ![A].email = Some(<<"a">>)]
        /\ <<cards, loginUsers, refundRequests>>
             = <<initial.cards, initial.loginUsers, initial.refundRequests>>

\* C17: the update of markOrderPaid(orderId) on an existing order sets status to paid and
\* paidAt to the current time whatever the status was, paid included, leaves the order's
\* other columns, every other order, the cards, the balances and the refund requests as they
\* were; no other step of markOrderPaid changes a row.
C17_MarkPaidUnconditional ==
    [][\A p \in Procs :
          (proc[p].op = "markOrderPaid" /\ Stepped(p))
          => /\ UNCHANGED <<cards, loginUsers, refundRequests>>
             /\ DOMAIN orders' = DOMAIN orders
             /\ \A k \in DOMAIN orders :
                   IF k = proc[p].orderId /\ proc[p].pc = "L13" /\ proc'[p].pc # "done"
                   THEN /\ orders'[k].status = "paid" /\ orders'[k].paidAt = Some(Now)
                        /\ [orders'[k] EXCEPT !.status = "paid", !.paidAt = None]
                             = [orders[k] EXCEPT !.status = "paid", !.paidAt = None]
                   ELSE orders'[k] = orders[k]]_vars

C17_Witness ==
    /\ \A p \in Procs : /\ proc[p].op = "markOrderPaid" /\ proc[p].orderId = A
                         /\ proc[p].pc = "done" /\ proc[p].result = Void
    /\ initial.orders[A].status = "cancelled"
    /\ orders = [initial.orders EXCEPT ![A].status = "paid", ![A].paidAt = Some(2)]
    /\ <<cards, loginUsers, refundRequests>>
         = <<initial.cards, initial.loginUsers, initial.refundRequests>>

\* the requests that have arrived are cancelOrder, deleteOrder and deleteOrders calls about
\* order o alone, each begun after the transaction of the one before it had ended
SequenceAbout(o) ==
    \A p \in Procs :
        \/ proc[p].op = "none"
        \/ /\ proc[p].op = "cancelOrder" /\ proc[p].orderId = o /\ ~proc[p].overlapped
        \/ /\ proc[p].op \in {"deleteOrder", "deleteOrders"} /\ ~proc[p].overlapped
           /\ \A i \in DOMAIN proc[p].ids : proc[p].ids[i] = o

\* C18: after any sequence of cancelOrder, deleteOrder and deleteOrders calls about order O,
\* the balance of O's owner exceeds its initial balance by pointsUsed(O) at most, and no
\* other balance has changed.
C18_CreditedAtMostPointsUsed ==
    \A o \in DOMAIN initial.orders :
        SequenceAbout(o)
        => LET order == initial.orders[o]
               credit == IF RefundsPoints(Some(order)) THEN order.pointsUsed[1] ELSE 0
           IN  \A u \in DOMAIN loginUsers :
                  loginUsers[u] - initial.loginUsers[u]
                     <= (IF order.userId = Some(u) THEN credit ELSE 0)

\* the store after one deletion of order o from the initial store: the owner credited once,
\* the unused cards reserved for o released, the refund requests of o removed (kept when their
\* delete failed) and the order row removed
DeletedOnce(o, failed) ==
    LET order == initial.orders[o]
    IN  <<[k \in DOMAIN initial.orders \ {o} |-> initial.orders[k]],
          [c \in DOMAIN initial.cards |->
              IF initial.cards[c].reservedOrderId = Some(o) /\ ~initial.cards[c].isUsed
              THEN CardRow(FALSE, None, None) ELSE initial.cards[c]],
          [u \in DOMAIN initial.loginUsers |->
              IF RefundsPoints(Some(order)) /\ order.userId = Some(u)
              THEN initial.loginUsers[u] + order.pointsUsed[1] ELSE initial.loginUsers[u]],
          IF failed THEN initial.refundRequests
          ELSE [r \in {x \in DOMAIN initial.refundRequests : initial.refundRequests[x] # o} |->
                   initial.refundRequests[r]]>>

\* C19: deleteOrders([A, A]) and deleteOrders([A]), run on their own from the same store, leave
\* the same store: that of one deletion of A, its points credited once.
C19_DuplicateIdDeletesOnce ==
    \A p \in Procs :
        (/\ proc[p].op = "deleteOrders" /\ proc[p].ids \in {<<A>>, <<A, A>>}
         /\ proc[p].committed
         /\ \A q \in Procs \ {p} : proc[q].pc = "idle")
        => store = DeletedOnce(A, A \in proc[p].skipped)

C19_Witness ==
    \E p \in Procs :
        /\ proc[p].op = "deleteOrders" /\ proc[p].ids = <<A, A>>
        /\ proc[p].pc = "done" /\ proc[p].result = Void /\ proc[p].committed
        /\ \A q \in Procs \ {p} : proc[q].pc = "idle"
        /\ A \notin DOMAIN orders
        /\ RefundsPoints(Some(initial.orders[A]))
        /\ loginUsers[U] = initial.loginUsers[U] + MaxPoints

\* requests 1 and 2 are cancelOrder calls of two orders of one owner, both paid for with
\* points, the second begun while the transaction of the first was open
CancelsOfOneOwner ==
    /\ \A p \in Procs : proc[p].op = "cancelOrder" /\ proc[p].orderId \in DOMAIN initial.orders
    /\ proc[1].orderId # proc[2].orderId
    /\ proc[2].overlapped
    /\ \A p \in Procs : RefundsPoints(Some(initial.orders[proc[p].orderId]))
    /\ initial.orders[proc[1].orderId].userId = initial.orders[proc[2].orderId].userId

\* C20: when two concurrent cancelOrder calls of different orders O1 and O2 of one user, paid
\* for with p1 > 0 and p2 > 0 points, have both committed, the user's balance is its initial
\* balance + p1 + p2, both orders are cancelled, and every unused card that was reserved for
\* one of them is released.
C20_ConcurrentCancelsKeepBothCredits ==
    (CancelsOfOneOwner /\ \A p \in Procs : proc[p].committed)
    => LET o1 == initial.orders[proc[1].orderId]
           o2 == initial.orders[proc[2].orderId]
           u == o1.userId[1]
       IN  /\ loginUsers[u] = initial.loginUsers[u] + o1.pointsUsed[1] + o2.pointsUsed[1]
           /\ \A p \in Procs : /\ proc[p].orderId \in DOMAIN orders
                                /\ orders[proc[p].orderId].status = "cancelled"
           /\ \A c \in DOMAIN cards :
                 (/\ ~initial.cards[c].isUsed
                  /\ \E p \in Procs : initial.cards[c].reservedOrderId = Some(proc[p].orderId))
                 => cards[c].reservedOrderId = None /\ cards[c].reservedAt = None

C20_Witness ==
    /\ CancelsOfOneOwner /\ \A p \in Procs : proc[p].committed /\ proc[p].pc = "done"
    /\ proc[1].orderId = A /\ proc[2].orderId = B
    /\ loginUsers[U] = MaxBalance + MaxPoints + 1
    /\ orders[A].status = "cancelled" /\ orders[B].status = "cancelled"
    /\ cards = [c \in CardIds |-> CardRow(FALSE, None, None)]

====
